---------------------------- MODULE Spec2Model ----------------------------
(***************************************************************************)
(* Model of math_verify/parser.py: the pattern libraries built by          *)
(* lazy_expr_regex / lazy_latex_regex (with their size-1 caches), the      *)
(* ordering done by get_extraction_regexes, the extractors extract_expr /  *)
(* extract_latex, and the priority matcher extract_target_from_pred that   *)
(* parse delegates to.                                                     *)
(*                                                                         *)
(* A text is represented by what the regular expressions find in it: a set *)
(* of occurrences [pattern, start, end, raw], one per match that           *)
(* pattern.finditer(pred) yields, "raw" being the text of the capture      *)
(* group the extractor reads.  The external algebra service               *)
(* (normalize_latex, latex2sympy, parse_expr) is a fixed function on a     *)
(* small set of representative captures; no match of the model's texts is  *)
(* followed by a percent marker, so convert_to_pct is never applied.       *)
(*                                                                         *)
(* Spec explores one call of parse on every text of up to MaxMatches       *)
(* matches; SpecLib one call with every single config; SpecCalls sequences *)
(* of calls that share the lru caches.                                     *)
(***************************************************************************)
EXTENDS Integers, Sequences, FiniteSets, TLC

VARIABLES
    pc,                     \* position of the current parse call
    pred,                   \* argument of parse: the text (its occurrences)
    extraction_config,      \* argument of parse: sequence of target configs
    fallback_mode,          \* argument of parse
    extraction_mode,        \* argument of parse
    expr_regex_cache,       \* lru_cache(maxsize=1) of lazy_expr_regex
    latex_regex_cache,      \* lru_cache(maxsize=1) of lazy_latex_regex
    parse_cache,            \* lru_caches of extract_latex, parse_latex_with_timeout
                            \* and parse_expr_with_timeout
    calls,                  \* number of parse calls so far (names the Match objects)
    target_res,             \* what get_extraction_regexes returned
    groups,                 \* keys of the priority groups still to be iterated
    matches_with_pos,       \* sorted candidates of the current group, not yet tried
    extracted_predictions,  \* local of extract_target_from_pred
    fallbacks,              \* local of extract_target_from_pred
    match_found,            \* local of extract_target_from_pred
    attempted,              \* history: the candidates handed to extract_match
    result                  \* the list parse returned

vars == <<pc, pred, extraction_config, fallback_mode, extraction_mode,
          expr_regex_cache, latex_regex_cache, parse_cache, calls, target_res,
          groups,
          matches_with_pos, extracted_predictions, fallbacks, match_found,
          attempted, result>>

-----------------------------------------------------------------------------
(* Bounds of the model *)

\* Largest number of occurrences (regex matches of all patterns) in a text.
MaxMatches == 2

-----------------------------------------------------------------------------
(* Target configurations (frozen dataclasses, compared by value) *)

LatexExtractionConfig(anchorless, boxed) ==
    [type |-> "latex", try_extract_without_anchor |-> anchorless,
     boxed_match_priority |-> boxed]

ExprExtractionConfig(anchorless) ==
    [type |-> "expr", try_extract_without_anchor |-> anchorless]

\* Values of boxed_match_priority that are tried: disabled, first, the
\* default, and the priority of the unanchored rules.
BoxedPriorities == {-1, 0, 50, 300}

LatexConfigs ==
    {LatexExtractionConfig(a, b) : a \in BOOLEAN, b \in BoxedPriorities}

ExprConfigs == {ExprExtractionConfig(a) : a \in BOOLEAN}

isinstance(target_type, class) == target_type.type = class

\* Objects of another class passed as a target config: with the attribute
\* try_extract_without_anchor (as the configs of other extraction targets
\* have) or without it.
OtherConfigs ==
    {[type |-> "other"]}
    \cup {[type |-> "other", try_extract_without_anchor |-> a] : a \in BOOLEAN}

hasattr(object, name) == name \in DOMAIN object

-----------------------------------------------------------------------------
(* Pattern libraries.  A compiled pattern is represented by its name. *)

Rule(pattern, priority) == [pattern |-> pattern, priority |-> priority]

\* lazy_expr_regex without its cache
lazy_expr_regex(expr_config) ==
    <<Rule("expr_final_answer_prefixed_re", 0),
      Rule("expr_final_answer_prefixed_just_is", 50),
      Rule("expr_equals_re_colon", 100),
      Rule("expr_equals_re", 200)>>
    \o (IF expr_config.try_extract_without_anchor
          THEN <<Rule("expr_with_anchors", 300), Rule("number_with_anchors", 300)>>
          ELSE <<>>)

\* Mutant of LatexRulesFor: the plain pattern is added whatever
\* try_extract_without_anchor says.
LatexRulesForAlwaysPlain(latex_re, latex_config) ==
    <<Rule(latex_re \o "_final_answer_prefixed_re", 0),
      Rule(latex_re \o "_final_answer_prefixed_just_is", 50),
      Rule(latex_re \o "_answer_re_colon", 100),
      Rule(latex_re \o "_answer_re", 200),
      Rule(latex_re, 300)>>

\* The rules lazy_latex_regex generates for one latex_re of its for loop.
LatexRulesFor(latex_re, latex_config) ==
    <<Rule(latex_re \o "_final_answer_prefixed_re", 0),
      Rule(latex_re \o "_final_answer_prefixed_just_is", 50),
      Rule(latex_re \o "_answer_re_colon", 100),
      Rule(latex_re \o "_answer_re", 200)>>
    \o (IF latex_config.try_extract_without_anchor
          THEN <<Rule(latex_re, 300)>>
          ELSE <<>>)

\* Mutant of lazy_latex_regex: the boxed rule is given priority 0 whatever
\* boxed_match_priority says.
lazy_latex_regex_boxed_first(latex_config) ==
    LatexRulesFor("latex_envs_re", latex_config)
    \o LatexRulesFor("latex_fraction", latex_config)
    \o (IF latex_config.boxed_match_priority >= 0
          THEN <<Rule("latex_boxed", 0)>>
          ELSE <<>>)

\* lazy_latex_regex without its cache
lazy_latex_regex(latex_config) ==
    LatexRulesFor("latex_envs_re", latex_config)
    \o LatexRulesFor("latex_fraction", latex_config)
    \o (IF latex_config.boxed_match_priority >= 0
          THEN <<Rule("latex_boxed", latex_config.boxed_match_priority)>>
          ELSE <<>>)

-----------------------------------------------------------------------------
(* functools.lru_cache: a cache is the sequence of its entries, least      *)
(* recently used first.  A raised exception is not cached.                 *)

ExprRegexCacheSize == 1
LatexRegexCacheSize == 1
ParseLatexCacheSize == 20
ParseExprCacheSize == 20
ExtractLatexCacheSize == 1000

\* Mutant of lru_hits: an entry is hit whatever its key.
lru_hits_any_key(cache, key) == 1..Len(cache)

\* The positions of the entries that a call with this key hits.
lru_hits(cache, key) == {i \in 1..Len(cache) : cache[i].key = key}

RemoveAt(seq, i) == SubSeq(seq, 1, i - 1) \o SubSeq(seq, i + 1, Len(seq))

\* A call through lru_cache(maxsize): whether it raised, the value returned
\* and the cache after.  raises and fresh are what the wrapped function does
\* for this key; it runs only on a miss, and a raise leaves the cache as it is.
lru_call(cache, maxsize, key, raises, fresh) ==
    IF lru_hits(cache, key) # {}
      THEN LET i == CHOOSE j \in lru_hits(cache, key) : TRUE
           IN  [raised |-> FALSE, value |-> cache[i].value,
                cache |-> Append(RemoveAt(cache, i), cache[i])]
      ELSE IF raises
      THEN [raised |-> TRUE, value |-> fresh, cache |-> cache]
      ELSE LET full == Append(cache, [key |-> key, value |-> fresh])
           IN  [raised |-> FALSE, value |-> fresh,
                cache |-> IF Len(full) > maxsize THEN Tail(full) ELSE full]

-----------------------------------------------------------------------------
(* get_extraction_regexes *)

\* The match statement has no case for another class: the function then
\* returns None, written 0 here.
get_target_type_order(target_type) ==
    IF isinstance(target_type, "latex") THEN 1
    ELSE IF isinstance(target_type, "expr") THEN 2
    ELSE 0

\* The list comprehension of get_extraction_regexes on target_types[i..],
\* threading the two size-1 caches: [raised, res, expr_cache, latex_cache].
\* Every target_type that is no LatexExtractionConfig goes to lazy_expr_regex,
\* which raises when it reads a try_extract_without_anchor that is not there.
RECURSIVE BuildRegexes(_, _, _, _)
BuildRegexes(target_types, i, ecache, lcache) ==
    IF i > Len(target_types)
      THEN [raised |-> FALSE, res |-> <<>>,
            expr_cache |-> ecache, latex_cache |-> lcache]
      ELSE LET target_type == target_types[i]
               islatex == isinstance(target_type, "latex")
               readable == hasattr(target_type, "try_extract_without_anchor")
               call == IF islatex
                         THEN lru_call(lcache, LatexRegexCacheSize, target_type, FALSE,
                                       lazy_latex_regex(target_type))
                         ELSE lru_call(ecache, ExprRegexCacheSize, target_type,
                                       ~readable,
                                       IF readable THEN lazy_expr_regex(target_type)
                                       ELSE <<>>)
               rest == BuildRegexes(target_types, i + 1,
                                    IF islatex THEN ecache ELSE call.cache,
                                    IF islatex THEN call.cache ELSE lcache)
           IN  IF call.raised
                 THEN [raised |-> TRUE, res |-> <<>>,
                       expr_cache |-> ecache, latex_cache |-> lcache]
               ELSE IF rest.raised THEN rest
               ELSE [rest EXCEPT !.res =
                       <<[patterns |-> call.value, target_type |-> target_type]>>
                       \o @]

\* Mutant of SortByTargetType: the list is left in the caller's order.
SortByTargetTypeUnsorted(extraction_regexes) == extraction_regexes

\* sorted(extraction_regexes, key=get_target_type_order): a stable sort on a
\* key that is 1 or 2; a list of fewer than two elements is returned as it
\* is, no key being compared.
SortByTargetType(extraction_regexes) ==
    IF Len(extraction_regexes) < 2 THEN extraction_regexes
    ELSE SelectSeq(extraction_regexes,
                   LAMBDA x : get_target_type_order(x.target_type) = 1)
         \o SelectSeq(extraction_regexes,
                      LAMBDA x : get_target_type_order(x.target_type) = 2)

\* Comparing a key that is None raises TypeError; keys are compared as soon
\* as the list has two elements.
sort_raises(extraction_regexes) ==
    /\ Len(extraction_regexes) >= 2
    /\ \E i \in 1..Len(extraction_regexes) :
          get_target_type_order(extraction_regexes[i].target_type) = 0

get_extraction_regexes(target_types, ecache, lcache) ==
    LET built == BuildRegexes(target_types, 1, ecache, lcache)
    IN  IF built.raised THEN built
        ELSE IF sort_raises(built.res)
          THEN [built EXCEPT !.raised = TRUE, !.res = <<>>]
        ELSE [built EXCEPT !.res = SortByTargetType(@)]

-----------------------------------------------------------------------------
(* Texts, as the matches the patterns find in them *)

\* The offsets at which the matches of the model's texts start and end.
Offsets == {0, 1, 2}

PatternsOf(library) == {library[i].pattern : i \in 1..Len(library)}

ExprPatterns == UNION {PatternsOf(lazy_expr_regex(c)) : c \in ExprConfigs}

LatexPatterns == UNION {PatternsOf(lazy_latex_regex(c)) : c \in LatexConfigs}

\* The patterns that match somewhere in the texts of the model: per target
\* kind the two "final answer" anchors and an unanchored pattern, and boxed.
TextPatterns ==
    {"expr_final_answer_prefixed_re", "expr_final_answer_prefixed_just_is",
     "number_with_anchors",
     "latex_envs_re_final_answer_prefixed_re",
     "latex_envs_re_final_answer_prefixed_just_is",
     "latex_envs_re", "latex_boxed"}

\* What the capture groups of a match can hold.  Expression patterns capture
\* a number (integer/decimal groups) or an arithmetic expression (expr
\* group); LaTeX patterns capture the text between the delimiters.
NumberCaptures == {"42"}
ExprCaptures == {"3/4", "3/)"}
LatexCaptures == {"\\frac{1}{2}", "\\frac{1}{", " ", "\\hang"}

Captures(pattern) ==
    IF pattern \in LatexPatterns THEN LatexCaptures
    ELSE IF pattern = "number_with_anchors" THEN NumberCaptures
    ELSE IF pattern = "expr_with_anchors" THEN ExprCaptures
    ELSE NumberCaptures \cup ExprCaptures

\* One re.Match: the pattern that matched, match.start(), match.end(), and the
\* captured text.
Occurrences ==
    {[pattern |-> p, start |-> a, end |-> b, raw |-> r] :
        p \in TextPatterns, a \in Offsets, b \in Offsets, r \in LatexCaptures
                                               \cup NumberCaptures \cup ExprCaptures}

ValidOccurrences ==
    {o \in Occurrences : o.start < o.end /\ o.raw \in Captures(o.pattern)}

\* finditer yields non-overlapping matches of one pattern.
Overlap(o1, o2) ==
    o1.pattern = o2.pattern /\ o1.start < o2.end /\ o2.start < o1.end

RECURSIVE TextsOfSize(_)
TextsOfSize(n) ==
    IF n = 0 THEN {{}}
    ELSE LET smaller == TextsOfSize(n - 1)
         IN  smaller \cup
             UNION {{t \cup {o} : o \in {x \in ValidOccurrences :
                                              \A y \in t : ~Overlap(x, y)}} :
                    t \in smaller}

\* pattern.finditer(pred): the matches of the pattern, left to right.
RECURSIVE SortByStart(_)
SortByStart(occs) ==
    IF occs = {} THEN <<>>
    ELSE LET first == CHOOSE o \in occs : \A x \in occs : o.start <= x.start
         IN  <<first>> \o SortByStart(occs \ {first})

finditer(pattern, text) == SortByStart({o \in text : o.pattern = pattern})

-----------------------------------------------------------------------------
(* The algebra service, on the representative captures *)

None == [tag |-> "None", of |-> ""]
Value(text) == [tag |-> "value", of |-> text]
Fallback(text) == [tag |-> "str", of |-> text]

\* normalize_latex: strips, so a blank capture normalizes to the empty string;
\* on "\hang" it fails (raises, or overruns the guard of extract_latex).
normalize_latex_fails(latex) == latex = "\\hang"
normalize_latex(latex) == IF latex = " " THEN "" ELSE latex

\* latex2sympy: the strings it parses; on the others it raises.
latex2sympy_parses(latex) == latex \in {"\\frac{1}{2}", "\\frac{3}{4}"}
latex2sympy(latex) == Value(latex)

\* sympy's parse_expr(expr, evaluate=False)
parse_expr_parses(expr) == expr \in {"3/4", "1/2"}
parse_expr(expr) == Value(expr)

\* Python's str methods, on the strings of the model.
Char(s, i) == SubSeq(s, i, i)

\* s.translate(str.maketrans("", "", deleted)): the characters of deleted
\* are removed.
RECURSIVE translate(_, _)
translate(s, deleted) ==
    IF s = "" THEN ""
    ELSE (IF Char(s, 1) \in deleted THEN "" ELSE Char(s, 1))
         \o translate(Tail(s), deleted)

\* s.lstrip(ch)
RECURSIVE lstrip(_, _)
lstrip(s, ch) ==
    IF s # "" /\ Char(s, 1) = ch THEN lstrip(Tail(s), ch) ELSE s

\* s.replace(old, new), old and new single characters
RECURSIVE replace(_, _, _)
replace(s, old, new) ==
    IF s = "" THEN ""
    ELSE (IF Char(s, 1) = old THEN new ELSE Char(s, 1))
         \o replace(Tail(s), old, new)

DigitChars == {"0", "1", "2", "3", "4", "5", "6", "7", "8", "9"}

IsDigits(s) == s # "" /\ \A i \in 1..Len(s) : Char(s, i) \in DigitChars

\* -?  in front of the digits
Unsigned(s) == IF s # "" /\ Char(s, 1) = "-" THEN Tail(s) ELSE s

\* integer1: -?\d{1,3}(?:[ ,]\d{3})+
IsThousands(s) ==
    \E k \in 1..3 :
       LET rest == SubSeq(Unsigned(s), k + 1, Len(Unsigned(s)))
       IN  /\ Len(Unsigned(s)) > k
           /\ IsDigits(SubSeq(Unsigned(s), 1, k))
           /\ Len(rest) % 4 = 0
           /\ \A j \in 0..((Len(rest) \div 4) - 1) :
                 /\ Char(rest, 4 * j + 1) \in {" ", ","}
                 /\ IsDigits(SubSeq(rest, 4 * j + 2, 4 * j + 4))

\* decimal1, decimal3: \.\d+
IsDotDigits(s) == Len(s) > 1 /\ Char(s, 1) = "." /\ IsDigits(Tail(s))

\* decimal2: [.,]\d+
IsSepDigits(s) == Len(s) > 1 /\ Char(s, 1) \in {".", ","} /\ IsDigits(Tail(s))

\* The ways to cut a capture into an integer group and a decimal group.
Splits(raw) ==
    {[integer |-> SubSeq(raw, 1, k), decimal |-> SubSeq(raw, k + 1, Len(raw))] :
        k \in 0..Len(raw)}

\* The four alternatives of number_re, in the order the regex tries them.
NumberFormat(g, format) ==
    CASE format = 1 -> IsThousands(g.integer)
                       /\ (g.decimal = "" \/ IsDotDigits(g.decimal))
      [] format = 2 -> IsDigits(Unsigned(g.integer)) /\ IsSepDigits(g.decimal)
      [] format = 3 -> g.integer = "" /\ IsDotDigits(g.decimal)
      [] format = 4 -> IsDigits(Unsigned(g.integer)) /\ g.decimal = ""

\* match.groupdict() of a capture of number_re: the integer and the decimal
\* group of the first alternative that matches the capture, both empty when
\* none does (the capture is one of the expr group).
number_groups(raw) ==
    LET fits(format) == {g \in Splits(raw) : NumberFormat(g, format)}
        formats == {format \in 1..4 : fits(format) # {}}
    IN  IF formats = {} THEN [integer |-> "", decimal |-> ""]
        ELSE LET first == CHOOSE f \in formats : \A h \in formats : f <= h
             IN  CHOOSE g \in fits(first) :
                    \A h \in fits(first) : Len(h.integer) <= Len(g.integer)

\* sympy.Number(number_str): the number a decimal numeral denotes, which
\* does not depend on the zeros in front of its integer digits.
Number(number_str) ==
    LET negative == number_str # "" /\ Char(number_str, 1) = "-"
        digits == lstrip(Unsigned(number_str), "0")
        numeral == IF digits = "" \/ Char(digits, 1) = "."
                     THEN "0" \o digits ELSE digits
    IN  Value(IF negative /\ numeral # "0" THEN "-" \o numeral ELSE numeral)

-----------------------------------------------------------------------------
(* The extractors *)

\* parse_latex_with_timeout through its cache, keyed by the string
parse_latex_with_timeout(latex, cache) ==
    lru_call(cache, ParseLatexCacheSize, latex,
             ~latex2sympy_parses(latex), latex2sympy(latex))

\* parse_expr_with_timeout through its cache, keyed by the string
parse_expr_with_timeout(expr, cache) ==
    lru_call(cache, ParseExprCacheSize, expr,
             ~parse_expr_parses(expr), parse_expr(expr))

\* What an extractor hands back: raised, or the pair (extracted_match,
\* str_fallback), and the caches after the call.
Extracted(raised, extracted_match, str_fallback, caches) ==
    [raised |-> raised, extracted_match |-> extracted_match,
     str_fallback |-> str_fallback, caches |-> caches]

\* extract_expr: the number branch when an integer/decimal group fired, else
\* the expr branch, whose parse failure is caught.  The percent group is
\* empty (is_percentage is False).
extract_expr(match, caches) ==
    IF number_groups(match.raw).integer # "" \/ number_groups(match.raw).decimal # ""
      THEN LET fired == number_groups(match.raw)
               stripped == lstrip(translate(fired.integer, {",", " "}), "0")
               integer == IF Len(stripped) = 0 THEN "0" ELSE stripped
               decimal == replace(fired.decimal, ",", ".")
               number_str == integer \o decimal
           IN  Extracted(FALSE, Number(number_str), number_str, caches)
      ELSE LET call == parse_expr_with_timeout(match.raw, caches.expr)
           IN  IF call.raised
                 THEN Extracted(FALSE, None, match.raw, caches)
                 ELSE Extracted(FALSE, call.value, match.raw,
                                [caches EXCEPT !.expr = call.cache])

\* The body of extract_latex: normalize_latex is called outside the try, the
\* parse inside it.  The percent group is empty (is_percentage is False).
extract_latex_body(match, latex_config, caches) ==
    IF normalize_latex_fails(match.raw)
      THEN Extracted(TRUE, None, "", caches)
      ELSE LET normalized_latex == normalize_latex(match.raw)
               call == parse_latex_with_timeout(normalized_latex, caches.latex)
           IN  IF call.raised
                 THEN Extracted(FALSE, None, normalized_latex, caches)
                 ELSE Extracted(FALSE, call.value, normalized_latex,
                                [caches EXCEPT !.latex = call.cache])

\* extract_latex through its cache, keyed by the Match object (compared by
\* identity) and the config.
extract_latex(match, latex_config, caches) ==
    LET body == extract_latex_body(match, latex_config, caches)
        call == lru_call(caches.extract, ExtractLatexCacheSize,
                         <<match.id, latex_config>>, body.raised,
                         <<body.extracted_match, body.str_fallback>>)
    IN  IF call.raised
          THEN Extracted(TRUE, None, "", caches)
        ELSE IF lru_hits(caches.extract, <<match.id, latex_config>>) # {}
          THEN Extracted(FALSE, call.value[1], call.value[2],
                         [caches EXCEPT !.extract = call.cache])
          ELSE Extracted(FALSE, call.value[1], call.value[2],
                         [body.caches EXCEPT !.extract = call.cache])

\* extract_match returns None for a target_type of neither class, and the
\* caller's unpacking of it raises.
extract_match(match, target_type, caches) ==
    IF isinstance(target_type, "latex")
      THEN extract_latex(match, target_type, caches)
    ELSE IF isinstance(target_type, "expr")
      THEN extract_expr(match, caches)
    ELSE Extracted(TRUE, None, "", caches)

-----------------------------------------------------------------------------
(* extract_target_from_pred *)

\* all_patterns: the rules of every library of target_res[i..], flattened.
\* k is the position of the triple in the whole list, n that of the last
\* triple before library i.
RECURSIVE Flatten(_, _, _)
Flatten(res, i, n) ==
    IF i > Len(res) THEN <<>>
    ELSE [j \in 1..Len(res[i].patterns) |->
             [pattern |-> res[i].patterns[j].pattern,
              target_type |-> res[i].target_type,
              priority |-> res[i].patterns[j].priority,
              k |-> n + j]]
         \o Flatten(res, i + 1, n + Len(res[i].patterns))

all_patterns(res) == Flatten(res, 1, 0)

RECURSIVE Ascending(_)
Ascending(numbers) ==
    IF numbers = {} THEN <<>>
    ELSE LET least == CHOOSE n \in numbers : \A m \in numbers : n <= m
         IN  <<least>> \o Ascending(numbers \ {least})

\* groupby(sorted(all_patterns, key=priority), key=priority): the keys of the
\* groups, in ascending priority; each group keeps the order of all_patterns
\* (the sort is stable).
RECURSIVE Descending(_)
Descending(numbers) ==
    IF numbers = {} THEN <<>>
    ELSE LET most == CHOOSE n \in numbers : \A m \in numbers : n >= m
         IN  <<most>> \o Descending(numbers \ {most})

\* Mutant of GroupOrder: the groups are walked from the highest priority
\* number down.
GroupOrderDescending(priorities) == Descending(priorities)

GroupOrder(priorities) == Ascending(priorities)

groupby_priority(patterns) ==
    GroupOrder({patterns[k].priority : k \in 1..Len(patterns)})

\* patterns_group of the group with this key
group_patterns(patterns, priority) ==
    SelectSeq(patterns, LAMBDA x : x.priority = priority)

\* The generator matches_with_pos of one group: for each pattern of the
\* group, in order, the matches finditer yields.  Each is a new Match object,
\* named by the call, the pattern triple and its rank; the match also records
\* the priority of the group it was found in.
Candidate(call, triple, occs, j) ==
    [match |-> [id |-> <<call, triple.k, j>>, pattern |-> occs[j].pattern,
                raw |-> occs[j].raw, priority |-> triple.priority],
     start |-> occs[j].start, end |-> occs[j].end,
     target_type |-> triple.target_type]

RECURSIVE find_matches(_, _, _)
find_matches(patterns_group, text, call) ==
    IF patterns_group = <<>> THEN <<>>
    ELSE LET triple == Head(patterns_group)
             occs == finditer(triple.pattern, text)
         IN  [j \in 1..Len(occs) |-> Candidate(call, triple, occs, j)]
             \o find_matches(Tail(patterns_group), text, call)

\* Mutant of SortsBefore: ties on the end offset go to the larger start.
SortsBeforeNarrowest(x, y) ==
    \/ x.end > y.end
    \/ x.end = y.end /\ x.start > y.start

\* x sorts before y under key=(end, -start), reverse=True
SortsBefore(x, y) ==
    \/ x.end > y.end
    \/ x.end = y.end /\ (0 - x.start) > (0 - y.start)

\* sorted(..., reverse=True): stable, so of the candidates that no other
\* candidate sorts before, the first in generation order comes first.
RECURSIVE sort_matches(_)
sort_matches(candidates) ==
    IF candidates = <<>> THEN <<>>
    ELSE LET i == CHOOSE j \in 1..Len(candidates) :
                    /\ \A l \in 1..Len(candidates) :
                          ~SortsBefore(candidates[l], candidates[j])
                    /\ \A l \in 1..(j - 1) :
                          SortsBefore(candidates[j], candidates[l])
         IN  <<candidates[i]>> \o sort_matches(RemoveAt(candidates, i))

-----------------------------------------------------------------------------
(* The state machine: one parse call, step by step *)

FallbackModes == {"no_fallback", "first_match"}
ExtractionModes == {"first_match", "any_match"}

\* The target_configs lists of the calls whose matching is explored: the
\* default list [LatexExtractionConfig(), ExprExtractionConfig()] and its
\* reverse, with boxed matching at its default priority and first.
MatchConfigLists ==
    UNION {{<<LatexExtractionConfig(TRUE, b), ExprExtractionConfig(TRUE)>>,
            <<ExprExtractionConfig(TRUE), LatexExtractionConfig(TRUE, b)>>} :
           b \in {0, 50}}

EmptyCaches == [extract |-> <<>>, latex |-> <<>>, expr |-> <<>>]

Init ==
    /\ pc = "idle"
    /\ pred = {}
    /\ extraction_config = <<>>
    /\ fallback_mode = "first_match"
    /\ extraction_mode = "any_match"
    /\ expr_regex_cache = <<>>
    /\ latex_regex_cache = <<>>
    /\ parse_cache = EmptyCaches
    /\ calls = 0
    /\ target_res = <<>>
    /\ groups = <<>>
    /\ matches_with_pos = <<>>
    /\ extracted_predictions = <<>>
    /\ fallbacks = <<>>
    /\ match_found = FALSE
    /\ attempted = <<>>
    /\ result = <<>>

\* parse is called: get_extraction_regexes, then the start of
\* extract_target_from_pred up to the groupby.  An exception of
\* get_extraction_regexes leaves parse.
Parse(text, configs, fmode, emode) ==
    /\ pc = "idle"
    /\ \E built \in {get_extraction_regexes(configs, expr_regex_cache,
                                           latex_regex_cache)} :
           /\ target_res' = built.res
           /\ expr_regex_cache' = built.expr_cache
           /\ latex_regex_cache' = built.latex_cache
           /\ groups' = groupby_priority(all_patterns(built.res))
           /\ pc' = IF built.raised THEN "raised" ELSE "groups"
    /\ pred' = text
    /\ extraction_config' = configs
    /\ fallback_mode' = fmode
    /\ extraction_mode' = emode
    /\ calls' = calls + 1
    /\ matches_with_pos' = <<>>
    /\ extracted_predictions' = <<>>
    /\ fallbacks' = <<>>
    /\ match_found' = FALSE
    /\ attempted' = <<>>
    /\ result' = <<>>
    /\ UNCHANGED parse_cache

\* The test that ends an iteration of the outer loop.
StopsAfterGroup(extracted, found, emode) ==
    extracted # <<>> \/ (found /\ emode = "first_match")

\* The matches of the group with this key, sorted.
group_matches(patterns, priority, text, call) ==
    sort_matches(find_matches(group_patterns(patterns, priority), text, call))

\* The groups left once the leading groups without a match are iterated: an
\* iteration that finds no match runs no inner iteration and, nothing being
\* extracted yet, goes on to the next group.
RECURSIVE skip_unmatched(_, _, _)
skip_unmatched(keys, patterns, text) ==
    IF keys = <<>> THEN keys
    ELSE IF \E k \in 1..Len(patterns) :
               /\ patterns[k].priority = Head(keys)
               /\ \E o \in text : o.pattern = patterns[k].pattern
      THEN keys
    ELSE skip_unmatched(Tail(keys), patterns, text)

\* The outer loop advances to the next priority group in which a pattern
\* matches and collects and sorts its matches; when no group is left with a
\* match the loop is exhausted.
NextGroup ==
    /\ pc = "groups"
    /\ groups # <<>>
    /\ \E left \in {skip_unmatched(groups, all_patterns(target_res), pred)} :
           IF left = <<>>
             THEN /\ groups' = <<>>
                  /\ pc' = "return"
                  /\ UNCHANGED matches_with_pos
             ELSE /\ groups' = Tail(left)
                  /\ matches_with_pos' =
                        group_matches(all_patterns(target_res), Head(left),
                                      pred, calls)
                  /\ pc' = "matches"
    /\ UNCHANGED <<pred, extraction_config, fallback_mode, extraction_mode,
                   expr_regex_cache, latex_regex_cache, parse_cache, calls,
                   target_res, extracted_predictions, fallbacks, match_found,
                   attempted, result>>

\* Mutant of inner_iteration: first_match does not break out of the tier.
inner_iteration_no_break(got, rest, extracted, fbs, found, emode) ==
    LET parsed == got.extracted_match # None
        extracted_after == IF parsed THEN Append(extracted, got.extracted_match)
                           ELSE extracted
        found_after == found \/ parsed
        ends == parsed \/ rest = <<>>
    IN  [fallbacks |-> IF got.str_fallback # "" THEN Append(fbs, got.str_fallback)
                       ELSE fbs,
         extracted_predictions |-> extracted_after,
         match_found |-> found_after,
         matches_with_pos |-> IF ends THEN <<>> ELSE rest,
         pc |-> IF ~ends THEN "matches"
                ELSE IF StopsAfterGroup(extracted_after, found_after, emode)
                  THEN "return" ELSE "groups"]

\* One iteration of the inner loop on this candidate, extract_match having
\* returned got: the locals after it and where the loops go next.
inner_iteration(got, rest, extracted, fbs, found, emode) ==
    LET parsed == got.extracted_match # None
        extracted_after == IF parsed THEN Append(extracted, got.extracted_match)
                           ELSE extracted
        found_after == found \/ parsed
        ends == parsed \/ emode = "first_match" \/ rest = <<>>
    IN  [fallbacks |-> IF got.str_fallback # "" THEN Append(fbs, got.str_fallback)
                       ELSE fbs,
         extracted_predictions |-> extracted_after,
         match_found |-> found_after,
         matches_with_pos |-> IF ends THEN <<>> ELSE rest,
         pc |-> IF ~ends THEN "matches"
                ELSE IF StopsAfterGroup(extracted_after, found_after, emode)
                  THEN "return" ELSE "groups"]

\* One iteration of the inner loop: extract_match on the next candidate.  An
\* exception of extract_match leaves extract_target_from_pred and parse.
TryMatch ==
    /\ pc = "matches"
    /\ matches_with_pos # <<>>
    /\ \E candidate \in {Head(matches_with_pos)} :
       \E got \in {extract_match(candidate.match, candidate.target_type,
                                 parse_cache)} :
           /\ attempted' = Append(attempted,
                 [candidate |-> candidate,
                  raised |-> got.raised,
                  extracted_match |-> got.extracted_match,
                  str_fallback |-> got.str_fallback])
           /\ parse_cache' = got.caches
           /\ IF got.raised
                THEN /\ pc' = "raised"
                     /\ UNCHANGED <<fallbacks, extracted_predictions, match_found,
                                    matches_with_pos>>
                ELSE \E after \in {inner_iteration(got, Tail(matches_with_pos),
                                       extracted_predictions, fallbacks,
                                       match_found, extraction_mode)} :
                     /\ fallbacks' = after.fallbacks
                     /\ extracted_predictions' = after.extracted_predictions
                     /\ match_found' = after.match_found
                     /\ matches_with_pos' = after.matches_with_pos
                     /\ pc' = after.pc
    /\ UNCHANGED <<pred, extraction_config, fallback_mode, extraction_mode,
                   expr_regex_cache, latex_regex_cache, calls, target_res,
                   groups, result>>

\* Mutant of returned_list: the last fallback recorded is appended.
returned_list_last_fallback(extracted, fbs, fmode) ==
    IF fmode = "first_match" /\ fbs # <<>>
      THEN Append(extracted, Fallback(fbs[Len(fbs)]))
      ELSE extracted

\* Mutant of returned_list: the fallback is appended whatever the mode.
returned_list_any_mode(extracted, fbs, fmode) ==
    IF fbs # <<>>
      THEN Append(extracted, Fallback(fbs[1]))
      ELSE extracted

\* What follows the outer loop: under first_match the first fallback recorded
\* is appended to the extracted predictions.
returned_list(extracted, fbs, fmode) ==
    IF fmode = "first_match" /\ fbs # <<>>
      THEN Append(extracted, Fallback(fbs[1]))
      ELSE extracted

\* extract_target_from_pred returns, and parse returns its list.
Return ==
    /\ \/ pc = "return"
       \/ pc = "groups" /\ groups = <<>>
    /\ result' = returned_list(extracted_predictions, fallbacks, fallback_mode)
    /\ pc' = "done"
    /\ UNCHANGED <<pred, extraction_config, fallback_mode, extraction_mode,
                   expr_regex_cache, latex_regex_cache, parse_cache, calls,
                   target_res, groups, matches_with_pos, extracted_predictions,
                   fallbacks, match_found, attempted>>

ParseText ==
    /\ pc = "idle"
    /\ \E text \in TextsOfSize(MaxMatches), configs \in MatchConfigLists,
          fmode \in FallbackModes, emode \in ExtractionModes :
           Parse(text, configs, fmode, emode)

Next == ParseText \/ NextGroup \/ TryMatch \/ Return

Spec == Init /\ [][Next]_vars

\* A second specification, for the pattern libraries: one call with a single
\* target config, any of the LaTeX and expression configs, on a short text.
MaxLibMatches == 1

LibConfigLists == {<<c>> : c \in LatexConfigs \cup ExprConfigs}

ParseLib ==
    /\ pc = "idle"
    /\ \E text \in TextsOfSize(MaxLibMatches), configs \in LibConfigLists,
          fmode \in FallbackModes, emode \in ExtractionModes :
           Parse(text, configs, fmode, emode)

NextLib == ParseLib \/ NextGroup \/ TryMatch \/ Return

SpecLib == Init /\ [][NextLib]_vars

\* A third specification, for the memoization caches: a sequence of calls in
\* one process, the caches living on from call to call.
MaxCalls == 2

CallLatexCaptures == {"\\frac{1}{2}", "\\frac{3}{4}", "\\frac{1}{", "\\hang"}
CallExprCaptures == {"3/4", "1/2"}

CallTexts ==
    {{[pattern |-> "latex_boxed", start |-> 0, end |-> 1, raw |-> r]} :
        r \in CallLatexCaptures}
    \cup {{[pattern |-> "expr_final_answer_prefixed_just_is", start |-> 0,
            end |-> 1, raw |-> r]} : r \in CallExprCaptures}

CallConfigLists ==
    {<<LatexExtractionConfig(TRUE, 50)>>,
     <<LatexExtractionConfig(TRUE, 0)>>,
     <<LatexExtractionConfig(FALSE, -1), ExprExtractionConfig(TRUE)>>,
     <<ExprExtractionConfig(FALSE)>>,
     <<ExprExtractionConfig(TRUE), LatexExtractionConfig(TRUE, 50)>>,
     <<LatexExtractionConfig(TRUE, 0), LatexExtractionConfig(TRUE, 50)>>}

ParseCall ==
    /\ pc = "idle"
    /\ calls < MaxCalls
    /\ \E text \in CallTexts, configs \in CallConfigLists,
          fmode \in FallbackModes, emode \in ExtractionModes :
           Parse(text, configs, fmode, emode)

\* The call is over, by a return or by an exception: its locals are gone, the
\* caches stay, and the process may call parse again.
Again ==
    /\ pc \in {"done", "raised"}
    /\ pc' = "idle"
    /\ pred' = {}
    /\ extraction_config' = <<>>
    /\ fallback_mode' = "first_match"
    /\ extraction_mode' = "any_match"
    /\ target_res' = <<>>
    /\ groups' = <<>>
    /\ matches_with_pos' = <<>>
    /\ extracted_predictions' = <<>>
    /\ fallbacks' = <<>>
    /\ match_found' = FALSE
    /\ attempted' = <<>>
    /\ result' = <<>>
    /\ UNCHANGED <<expr_regex_cache, latex_regex_cache, parse_cache, calls>>

NextCalls == ParseCall \/ NextGroup \/ TryMatch \/ Return \/ Again

SpecCalls == Init /\ [][NextCalls]_vars

\* A fourth specification, for the number branch of extract_expr: one call
\* with an expression config on a text in which number_with_anchors finds one
\* number, of any of the four formats of number_re, with runs of up to
\* MaxDigits digits.
MaxDigits == 2

NumberDigits == {"0", "1"}

\* The strings of exactly n digits.
RECURSIVE DigitRuns(_)
DigitRuns(n) ==
    IF n = 0 THEN {""}
    ELSE {d \o run : d \in NumberDigits, run \in DigitRuns(n - 1)}

DigitStrings == UNION {DigitRuns(n) : n \in 1..MaxDigits}

\* What number_re can capture: thousands-separated, with a decimal part,
\* decimal part only, integer only.
NumberMatches ==
    {sign \o d \o sep \o run \o decimal :
        sign \in {"", "-"}, d \in DigitStrings, sep \in {",", " "},
        run \in DigitRuns(3),
        decimal \in {""} \cup {"." \o f : f \in DigitStrings}}
    \cup {sign \o d \o sep \o f :
             sign \in {"", "-"}, d \in DigitStrings, sep \in {".", ","},
             f \in DigitStrings}
    \cup {"." \o f : f \in DigitStrings}
    \cup {sign \o d : sign \in {"", "-"}, d \in DigitStrings}

NumberTexts ==
    {{[pattern |-> "number_with_anchors", start |-> 0, end |-> 1, raw |-> r]} :
        r \in NumberMatches}

ParseNumber ==
    /\ pc = "idle"
    /\ \E text \in NumberTexts, configs \in {<<ExprExtractionConfig(TRUE)>>},
          fmode \in FallbackModes, emode \in ExtractionModes :
           Parse(text, configs, fmode, emode)

NextNumbers == ParseNumber \/ NextGroup \/ TryMatch \/ Return

SpecNumbers == Init /\ [][NextNumbers]_vars

\* A fifth specification, for target configs of another class: one call on a
\* short text with a list of one or two configs, at least one of them
\* neither a LatexExtractionConfig nor an ExprExtractionConfig.
UnknownConfigLists ==
    LET some == {LatexExtractionConfig(TRUE, 50), ExprExtractionConfig(TRUE)}
                \cup OtherConfigs
    IN  {<<c>> : c \in OtherConfigs}
        \cup {<<c, d>> : c \in OtherConfigs, d \in some}
        \cup {<<c, d>> : c \in some, d \in OtherConfigs}

ParseUnknown ==
    /\ pc = "idle"
    /\ \E text \in TextsOfSize(MaxLibMatches), configs \in UnknownConfigLists,
          fmode \in FallbackModes, emode \in ExtractionModes :
           Parse(text, configs, fmode, emode)

NextUnknown == ParseUnknown \/ NextGroup \/ TryMatch \/ Return

SpecUnknown == Init /\ [][NextUnknown]_vars

-----------------------------------------------------------------------------
(* What the claims speak of *)

Returned == pc = "done"

\* The priority tiers of the call, and the candidates of a tier in the order
\* the matcher walks them.
Tiers == groupby_priority(all_patterns(target_res))
TierSet == {Tiers[i] : i \in 1..Len(Tiers)}
Tier(priority) == group_matches(all_patterns(target_res), priority, pred, calls)
TierCandidates(priority) == {Tier(priority)[i] : i \in 1..Len(Tier(priority))}

\* A candidate parses when its extraction, on its own, yields a value.
Parses(candidate) ==
    LET got == extract_match(candidate.match, candidate.target_type, EmptyCaches)
    IN  ~got.raised /\ got.extracted_match # None

ParseableTiers == {p \in TierSet : \E c \in TierCandidates(p) : Parses(c)}

Least(numbers) == CHOOSE n \in numbers : \A m \in numbers : n <= m

StructuredValues(list) == SelectSeq(list, LAMBDA x : x.tag = "value")
RawStrings(list) == SelectSeq(list, LAMBDA x : x.tag = "str")

\* The attempt that was accepted, when there is one: the last one.
HasAccepted ==
    attempted # <<>> /\ ~attempted[Len(attempted)].raised
    /\ attempted[Len(attempted)].extracted_match # None
Accepted == attempted[Len(attempted)]

-----------------------------------------------------------------------------
(* C1 *)

\* C1: under extraction_mode any_match the tiers are tried in ascending
\* priority number and nothing is tried once a candidate has parsed: a call
\* that returns holds a structured value iff some candidate of some tier
\* parses, and that value is the one of the accepted candidate, which is of
\* the lowest-numbered tier that holds a parseable candidate; no candidate of
\* a higher-numbered tier was attempted, whatever its kind and position.
C1_LowestParseableTierWins ==
    extraction_mode = "any_match" =>
       /\ \A i \in 1..Len(attempted) :
             /\ i < Len(attempted) => attempted[i].extracted_match = None
             /\ \A j \in 1..(i - 1) :
                   attempted[j].candidate.match.priority
                      <= attempted[i].candidate.match.priority
       /\ Returned =>
             /\ StructuredValues(result) # <<>> <=> ParseableTiers # {}
             /\ ParseableTiers # {} =>
                   /\ HasAccepted
                   /\ Accepted.candidate.match.priority = Least(ParseableTiers)
                   /\ StructuredValues(result) = <<Accepted.extracted_match>>
                   /\ \A i \in 1..Len(attempted) :
                         attempted[i].candidate.match.priority
                            <= Least(ParseableTiers)

\* A call returned the 42 of a priority-0 "final answer is: 42. I hope" match
\* although an unanchored number ends later in the text.
C1_Witness ==
    /\ Returned
    /\ extraction_mode = "any_match"
    /\ HasAccepted
    /\ Accepted.candidate.match.pattern = "expr_final_answer_prefixed_re"
    /\ Accepted.candidate.match.raw = "42"
    /\ StructuredValues(result) = <<Number("42")>>
    /\ \E o \in pred : /\ o.pattern = "number_with_anchors"
                       /\ o.end > Accepted.candidate.end
    /\ 300 \in ParseableTiers

-----------------------------------------------------------------------------
(* C2 *)

SameTier(a, b) == a.candidate.match.priority = b.candidate.match.priority

\* C2 as stated: in a tier the candidates are attempted by end offset
\* descending and, at equal end, by start offset descending, so the accepted
\* candidate is, of the parseable ones of its tier, the one with the largest
\* end and, among those, the largest start.
C2_LargestEndThenLargestStart ==
    /\ \A i \in 2..Len(attempted) :
          SameTier(attempted[i - 1], attempted[i]) =>
             \/ attempted[i].candidate.end < attempted[i - 1].candidate.end
             \/ /\ attempted[i].candidate.end = attempted[i - 1].candidate.end
                /\ attempted[i].candidate.start <= attempted[i - 1].candidate.start
    /\ HasAccepted =>
          \A c \in TierCandidates(Accepted.candidate.match.priority) :
             Parses(c) =>
                \/ c.end < Accepted.candidate.end
                \/ c.end = Accepted.candidate.end
                   /\ c.start <= Accepted.candidate.start

\* C2, amended: in a tier the candidates are attempted by end offset
\* descending and, at equal end, by start offset ascending, so the accepted
\* candidate is, of the parseable ones of its tier, the one with the largest
\* end and, among those, the smallest start (the rightmost, widest span).
C2_LargestEndThenSmallestStart ==
    /\ \A i \in 2..Len(attempted) :
          SameTier(attempted[i - 1], attempted[i]) =>
             \/ attempted[i].candidate.end < attempted[i - 1].candidate.end
             \/ /\ attempted[i].candidate.end = attempted[i - 1].candidate.end
                /\ attempted[i].candidate.start >= attempted[i - 1].candidate.start
    /\ HasAccepted =>
          \A c \in TierCandidates(Accepted.candidate.match.priority) :
             Parses(c) =>
                \/ c.end < Accepted.candidate.end
                \/ c.end = Accepted.candidate.end
                   /\ c.start >= Accepted.candidate.start

\* Two parseable candidates of one tier end at the same offset, and the one
\* that starts first was accepted.
C2_Witness ==
    /\ HasAccepted
    /\ \E c \in TierCandidates(Accepted.candidate.match.priority) :
          /\ Parses(c)
          /\ c.end = Accepted.candidate.end
          /\ c.start > Accepted.candidate.start

-----------------------------------------------------------------------------
(* C3 *)

NoneParsed == \A i \in 1..Len(attempted) : attempted[i].extracted_match = None

\* C3 as stated: under fallback_mode first_match, once a candidate was
\* attempted the returned list is non-empty and ends with the textual fallback
\* of the first candidate attempted; when none parsed, the list is exactly
\* that string.
C3_FallbackOfFirstAttempt ==
    (Returned /\ fallback_mode = "first_match" /\ attempted # <<>>) =>
       /\ result # <<>>
       /\ result[Len(result)] = Fallback(attempted[1].str_fallback)
       /\ NoneParsed => result = <<Fallback(attempted[1].str_fallback)>>

NonEmptyFallbacks ==
    SelectSeq(attempted, LAMBDA a : ~a.raised /\ a.str_fallback # "")

\* C3, amended: under fallback_mode first_match, once a candidate with a
\* non-empty textual fallback was attempted the returned list is non-empty and
\* its last element, its only raw string, is the first non-empty fallback in
\* the order of the attempts, parsed or not; when none parsed, the list is
\* exactly that string.  When every attempted candidate had an empty fallback
\* the list holds no raw string.
C3_FirstNonEmptyFallback ==
    (Returned /\ fallback_mode = "first_match") =>
       IF NonEmptyFallbacks # <<>>
         THEN /\ result # <<>>
              /\ result[Len(result)] = Fallback(NonEmptyFallbacks[1].str_fallback)
              /\ Len(RawStrings(result)) = 1
              /\ NoneParsed =>
                    result = <<Fallback(NonEmptyFallbacks[1].str_fallback)>>
         ELSE RawStrings(result) = <<>>

\* No candidate parsed; the first attempt had an empty fallback, and the list
\* returned is the fallback of the second attempt alone.
C3_Witness ==
    /\ Returned
    /\ fallback_mode = "first_match"
    /\ Len(attempted) >= 2
    /\ NoneParsed
    /\ attempted[1].str_fallback = ""
    /\ attempted[2].str_fallback # ""
    /\ result = <<Fallback(attempted[2].str_fallback)>>

-----------------------------------------------------------------------------
(* C4 *)

\* C4: under fallback_mode no_fallback the returned list holds no raw
\* fallback string: it is empty when no pattern matched or no attempted
\* candidate parsed, and otherwise holds the accepted structured value alone.
C4_NoFallbackOnlyValues ==
    (Returned /\ fallback_mode = "no_fallback") =>
       /\ RawStrings(result) = <<>>
       /\ NoneParsed => result = <<>>
       /\ ~NoneParsed => HasAccepted /\ result = <<Accepted.extracted_match>>

\* Candidates were attempted and left a fallback, none parsed, and the list
\* returned under no_fallback is empty.
C4_Witness ==
    /\ Returned
    /\ fallback_mode = "no_fallback"
    /\ attempted # <<>>
    /\ fallbacks # <<>>
    /\ NoneParsed
    /\ result = <<>>

-----------------------------------------------------------------------------
(* C5 *)

-----------------------------------------------------------------------------
(* C6 *)

\* C6: a timeout or other failure while one candidate is extracted never
\* leaves parse as an exception.
C6_NoExceptionLeavesParse == pc # "raised"

-----------------------------------------------------------------------------
(* C7 *)

ConfigsOfKind(configs, class) ==
    SelectSeq(configs, LAMBDA c : isinstance(c, class))

TargetTypes(res) == [i \in 1..Len(res) |-> res[i].target_type]

SameSpan(a, b) == a.start = b.start /\ a.end = b.end

\* C7: whatever the order of the configs passed to parse, the libraries of
\* the LaTeX configs come before those of the expression configs in what the
\* matcher is handed, configs of one kind keeping the caller's order; and in
\* one tier, of two candidates with the same start and end offsets the LaTeX
\* one is attempted before the expression one.
C7_LatexLibrariesFirst ==
    pc # "idle" =>
       /\ \A i \in 1..Len(target_res) : \A j \in 1..(i - 1) :
             ~(/\ isinstance(target_res[j].target_type, "expr")
               /\ isinstance(target_res[i].target_type, "latex"))
       /\ ConfigsOfKind(TargetTypes(target_res), "latex")
             = ConfigsOfKind(extraction_config, "latex")
       /\ ConfigsOfKind(TargetTypes(target_res), "expr")
             = ConfigsOfKind(extraction_config, "expr")
       /\ \A i \in 1..Len(matches_with_pos) : \A j \in 1..(i - 1) :
             SameSpan(matches_with_pos[j], matches_with_pos[i]) =>
                ~(/\ isinstance(matches_with_pos[j].target_type, "expr")
                  /\ isinstance(matches_with_pos[i].target_type, "latex"))
       /\ \A i \in 1..Len(attempted) : \A j \in 1..(i - 1) :
             (/\ SameTier(attempted[j], attempted[i])
              /\ SameSpan(attempted[j].candidate, attempted[i].candidate)) =>
                ~(/\ isinstance(attempted[j].candidate.target_type, "expr")
                  /\ isinstance(attempted[i].candidate.target_type, "latex"))

\* The caller listed the expression config first; a LaTeX and an expression
\* candidate of one tier span the same offsets, and the LaTeX one was
\* attempted first.
C7_Witness ==
    /\ Len(extraction_config) = 2
    /\ isinstance(extraction_config[1], "expr")
    /\ isinstance(extraction_config[2], "latex")
    /\ Len(attempted) = 2
    /\ SameTier(attempted[1], attempted[2])
    /\ SameSpan(attempted[1].candidate, attempted[2].candidate)
    /\ isinstance(attempted[1].candidate.target_type, "latex")
    /\ isinstance(attempted[2].candidate.target_type, "expr")

-----------------------------------------------------------------------------
(* C10 *)

\* The "final answer" anchor rules of priority 0 and of priority 50.
FinalAnswerHopePatterns ==
    {"expr_final_answer_prefixed_re", "latex_envs_re_final_answer_prefixed_re",
     "latex_fraction_final_answer_prefixed_re"}
FinalAnswerIsPatterns ==
    {"expr_final_answer_prefixed_just_is",
     "latex_envs_re_final_answer_prefixed_just_is",
     "latex_fraction_final_answer_prefixed_just_is"}

\* The call has one LaTeX config, with this boxed_match_priority.
BoxedMatchPriorityIs(priority) ==
    /\ Len(ConfigsOfKind(extraction_config, "latex")) = 1
    /\ ConfigsOfKind(extraction_config, "latex")[1].boxed_match_priority
          = priority

AllCandidates == UNION {TierCandidates(p) : p \in TierSet}

-----------------------------------------------------------------------------
(* C9 *)

PrioritiesOf(library) == {library[i].priority : i \in 1..Len(library)}

BoxedRules(library) ==
    {i \in 1..Len(library) : library[i].pattern = "latex_boxed"}

\* The priorities C9 gives for the library of a config.
ExpectedPriorities(config) ==
    {0, 50, 100, 200}
    \cup (IF config.try_extract_without_anchor THEN {300} ELSE {})
    \cup (IF isinstance(config, "latex") /\ config.boxed_match_priority >= 0
            THEN {config.boxed_match_priority} ELSE {})

\* What C9 says of the libraries themselves.
LibrariesAsExpected ==
    \A i \in 1..Len(target_res) :
       LET library == target_res[i].patterns
           config == target_res[i].target_type
       IN  /\ PrioritiesOf(library) = ExpectedPriorities(config)
           /\ IF isinstance(config, "latex") /\ config.boxed_match_priority >= 0
                THEN /\ Cardinality(BoxedRules(library)) = 1
                     /\ \A r \in BoxedRules(library) :
                           library[r].priority = config.boxed_match_priority
                ELSE BoxedRules(library) = {}

\* C9 as stated: the priorities of a built library are {0, 50, 100, 200},
\* plus 300 iff try_extract_without_anchor, plus (LaTeX) one boxed rule at
\* boxed_match_priority iff that is >= 0; a config with a negative
\* boxed_match_priority yields no boxed candidate, and a config with
\* try_extract_without_anchor false yields no candidate of tier 300.
C9_LibraryPriorities ==
    pc # "idle" =>
       /\ LibrariesAsExpected
       /\ \A c \in AllCandidates :
             /\ (/\ isinstance(c.target_type, "latex")
                 /\ c.target_type.boxed_match_priority < 0)
                   => c.match.pattern # "latex_boxed"
             /\ ~c.target_type.try_extract_without_anchor
                   => c.match.priority # 300

UnanchoredPatterns ==
    {"latex_envs_re", "latex_fraction", "expr_with_anchors",
     "number_with_anchors"}

\* C9, amended: the priorities of a built library are {0, 50, 100, 200},
\* plus 300 iff try_extract_without_anchor, plus (LaTeX) one boxed rule at
\* boxed_match_priority iff that is >= 0; a config with a negative
\* boxed_match_priority yields no boxed candidate, and a config with
\* try_extract_without_anchor false yields no candidate of an unanchored rule:
\* its only candidates of tier 300 are boxed ones, when boxed_match_priority
\* is 300.
C9_LibraryPrioritiesBoxedApart ==
    pc # "idle" =>
       /\ LibrariesAsExpected
       /\ \A c \in AllCandidates :
             /\ (/\ isinstance(c.target_type, "latex")
                 /\ c.target_type.boxed_match_priority < 0)
                   => c.match.pattern # "latex_boxed"
             /\ ~c.target_type.try_extract_without_anchor
                   => /\ c.match.pattern \notin UnanchoredPatterns
                      /\ c.match.priority = 300
                            => /\ c.match.pattern = "latex_boxed"
                               /\ c.target_type.boxed_match_priority = 300

\* A call with try_extract_without_anchor false and boxed matching disabled
\* returned without a candidate from a text in which the boxed pattern or an
\* unanchored pattern matches.
C9_Witness ==
    /\ Returned
    /\ Len(extraction_config) = 1
    /\ ~extraction_config[1].try_extract_without_anchor
    /\ isinstance(extraction_config[1], "latex")
    /\ extraction_config[1].boxed_match_priority < 0
    /\ \E o \in pred : o.pattern \in UnanchoredPatterns \cup {"latex_boxed"}
    /\ AllCandidates = {}
    /\ attempted = <<>>

-----------------------------------------------------------------------------
(* C8 *)

\* The loops of extract_target_from_pred run to their end from the locals st,
\* as NextGroup and TryMatch step them.
RECURSIVE run_loops(_, _, _, _, _)
run_loops(st, patterns, text, emode, call) ==
    IF st.pc = "groups"
      THEN LET left == skip_unmatched(st.groups, patterns, text)
           IN  IF left = <<>> THEN [st EXCEPT !.pc = "return"]
               ELSE run_loops([st EXCEPT
                                  !.groups = Tail(left),
                                  !.matches_with_pos =
                                      group_matches(patterns, Head(left), text, call),
                                  !.pc = "matches"],
                              patterns, text, emode, call)
    ELSE IF st.pc = "matches"
      THEN LET candidate == Head(st.matches_with_pos)
               got == extract_match(candidate.match, candidate.target_type,
                                    st.parse_cache)
               after == inner_iteration(got, Tail(st.matches_with_pos),
                                        st.extracted_predictions, st.fallbacks,
                                        st.match_found, emode)
           IN  IF got.raised THEN [st EXCEPT !.pc = "raised"]
               ELSE run_loops([st EXCEPT
                                  !.parse_cache = got.caches,
                                  !.fallbacks = after.fallbacks,
                                  !.extracted_predictions = after.extracted_predictions,
                                  !.match_found = after.match_found,
                                  !.matches_with_pos = after.matches_with_pos,
                                  !.pc = after.pc],
                              patterns, text, emode, call)
    ELSE st

\* What the call in progress does in a process whose caches are all empty:
\* whether it raises, and the list it returns.
ColdCall ==
    LET built == get_extraction_regexes(extraction_config, <<>>, <<>>)
        patterns == all_patterns(built.res)
        end == run_loops([pc |-> "groups",
                          groups |-> groupby_priority(patterns),
                          matches_with_pos |-> <<>>,
                          extracted_predictions |-> <<>>,
                          fallbacks |-> <<>>,
                          match_found |-> FALSE,
                          parse_cache |-> EmptyCaches],
                         patterns, pred, extraction_mode, calls)
    IN  [raised |-> built.raised \/ end.pc = "raised",
         result |-> returned_list(end.extracted_predictions, end.fallbacks,
                                  fallback_mode)]

\* The library a config asks for, built anew.
FreshLibrary(config) ==
    IF isinstance(config, "latex") THEN lazy_latex_regex(config)
    ELSE lazy_expr_regex(config)

\* C8: in every sequence of parse calls, each call returns what the same call
\* returns with all memoization caches empty: the libraries a call matches
\* with are those built for the configs requested in this call, every
\* extraction yields what it yields without the caches, and the call returns
\* the same list, or raises, as it does with the caches empty.
C8_CachesNeverStale ==
    /\ \A i \in 1..Len(target_res) :
          target_res[i].patterns = FreshLibrary(target_res[i].target_type)
    /\ \A i \in 1..Len(attempted) :
          LET a == attempted[i]
              cold == extract_match(a.candidate.match, a.candidate.target_type,
                                    EmptyCaches)
          IN  /\ a.raised = cold.raised
              /\ a.extracted_match = cold.extracted_match
              /\ a.str_fallback = cold.str_fallback
    /\ pc = "done" => ~ColdCall.raised /\ result = ColdCall.result
    /\ pc = "raised" => ColdCall.raised

CacheEntries(cache) == {cache[i] : i \in 1..Len(cache)}

\* A later call returned a value for a LaTeX string that an earlier call had
\* parsed under a different config: its libraries were rebuilt and its parse
\* was served by the per-string cache.
C8_Witness ==
    /\ Returned
    /\ calls > 1
    /\ HasAccepted
    /\ isinstance(Accepted.candidate.target_type, "latex")
    /\ \E e \in CacheEntries(parse_cache.extract) :
          /\ e.key[1][1] < calls
          /\ e.key[2] # Accepted.candidate.target_type
          /\ e.value[1] # None
          /\ e.value[2] = Accepted.str_fallback

-----------------------------------------------------------------------------
(* C11 *)

\* The characters of s in front of its first ch.
RECURSIVE Before(_, _)
Before(s, ch) ==
    IF s = "" \/ Char(s, 1) = ch THEN ""
    ELSE Char(s, 1) \o Before(Tail(s), ch)

\* The integer part of a number string: its digits between the sign and the
\* decimal separator.
IntegerPart(number_str) == Before(Unsigned(number_str), ".")

\* The numeral of a capture with the thousands separators and the zeros in
\* front of its integer digits left out: the same for two captures that
\* differ only in those.
PlainNumeral(raw) ==
    LET fired == number_groups(raw)
        digits == lstrip(translate(Unsigned(fired.integer), {",", " "}), "0")
    IN  (IF fired.integer # "" /\ Char(fired.integer, 1) = "-" THEN "-" ELSE "")
        \o (IF digits = "" THEN "0" ELSE digits)
        \o replace(fired.decimal, ",", ".")

IsNumberCapture(raw) ==
    number_groups(raw).integer # "" \/ number_groups(raw).decimal # ""

\* C11: in the number branch of extract_expr the number string that is parsed
\* and returned as fallback holds no ',' and no ' ', its integer part has no
\* leading zero unless it is exactly "0", and its decimal separator is '.';
\* the value is the one of that string, so captures that differ only in
\* thousands separators or leading zeros give the same value.
C11_NumberStringNormalized ==
    \A i \in 1..Len(attempted) :
       LET a == attempted[i]
           number_str == a.str_fallback
           rest == SubSeq(Unsigned(number_str), Len(IntegerPart(number_str)) + 1,
                          Len(Unsigned(number_str)))
       IN  IsNumberCapture(a.candidate.match.raw) =>
              /\ \A k \in 1..Len(number_str) : Char(number_str, k) \notin {",", " "}
              /\ IsDigits(IntegerPart(number_str))
              /\ Char(IntegerPart(number_str), 1) = "0"
                    => IntegerPart(number_str) = "0"
              /\ rest = "" \/ IsDotDigits(rest)
              /\ a.extracted_match = Number(number_str)
              /\ a.extracted_match = Number(PlainNumeral(a.candidate.match.raw))

-----------------------------------------------------------------------------
(* C12 *)

HasUnknownConfig ==
    \E i \in 1..Len(extraction_config) :
       /\ ~isinstance(extraction_config[i], "latex")
       /\ ~isinstance(extraction_config[i], "expr")

\* C12: a call of parse whose config list holds a config that is neither a
\* LatexExtractionConfig nor an ExprExtractionConfig raises at once, whatever
\* the text and the other configs: no library is built for that config, no
\* candidate is attempted and the call does not return.
C12_UnknownConfigRaisesAtOnce ==
    (pc # "idle" /\ HasUnknownConfig) =>
       /\ pc = "raised"
       /\ target_res = <<>>
       /\ attempted = <<>>

=============================================================================
